---- MODULE Spec2Model ----
(***************************************************************************)
(* A model of the unc-gas crate: the UncGas quantity (a u64 count of gas), *)
(* its scaled constructors and accessors, its checked and saturating       *)
(* arithmetic (src/src/lib.rs) and its Display implementation              *)
(* (src/src/trait_impls/display.rs).                                       *)
(*                                                                         *)
(* TLC's integers are 32 bits wide, the crate's are 64, and the constants  *)
(* 10^9, 10^12 and 2^64 - 1 are what the claims turn on.  A u64 is         *)
(* therefore a natural number written in base 1000: the sequence of its    *)
(* limbs, least significant first, without leading zeros (zero is <<>>),   *)
(* and the arithmetic below is exact arithmetic on such sequences.         *)
(***************************************************************************)
EXTENDS Integers, Sequences, FiniteSets, TLC

VARIABLES self, recv, op, arg, out, depth, pc

vars == <<self, recv, op, arg, out, depth, pc>>

(***************************************************************************)
(* Exact natural-number arithmetic on limb sequences (limbs in 0..999).    *)
(***************************************************************************)
Zero == <<>>

\* s without its leading (most significant) zero limbs
Trim(s) ==
  LET nz == {i \in 1..Len(s) : s[i] # 0}
  IN  IF nz = {} THEN <<>>
      ELSE SubSeq(s, 1, CHOOSE i \in nz : \A j \in nz : j <= i)

\* the natural number n < 2^31 as a limb sequence
RECURSIVE N(_)
N(n) == IF n = 0 THEN <<>> ELSE <<n % 1000>> \o N(n \div 1000)

LimbAt(a, i) == IF i <= Len(a) THEN a[i] ELSE 0

RECURSIVE AddFrom(_, _, _, _)
AddFrom(a, b, i, c) ==
  IF i > Len(a) /\ i > Len(b)
  THEN (IF c = 0 THEN <<>> ELSE <<c>>)
  ELSE LET s == LimbAt(a, i) + LimbAt(b, i) + c
       IN  <<s % 1000>> \o AddFrom(a, b, i + 1, s \div 1000)

Add(a, b) == AddFrom(a, b, 1, 0)

Less(a, b) ==
  IF Len(a) # Len(b) THEN Len(a) < Len(b)
  ELSE \E i \in 1..Len(a) :
         /\ a[i] < b[i]
         /\ \A j \in (i + 1)..Len(a) : a[j] = b[j]

Leq(a, b) == ~Less(b, a)

RECURSIVE SubFrom(_, _, _, _)
SubFrom(a, b, i, c) ==
  IF i > Len(a) THEN <<>>
  ELSE LET d == LimbAt(a, i) - LimbAt(b, i) - c
       IN  IF d < 0 THEN <<d + 1000>> \o SubFrom(a, b, i + 1, 1)
           ELSE <<d>> \o SubFrom(a, b, i + 1, 0)

\* a - b for b <= a
Sub(a, b) == Trim(SubFrom(a, b, 1, 0))

RECURSIVE MulLimbFrom(_, _, _, _)
MulLimbFrom(a, d, i, c) ==
  IF i > Len(a)
  THEN (IF c = 0 THEN <<>> ELSE <<c>>)
  ELSE LET p == a[i] * d + c
       IN  <<p % 1000>> \o MulLimbFrom(a, d, i + 1, p \div 1000)

\* a * d for one limb d
MulLimb(a, d) == IF d = 0 THEN <<>> ELSE MulLimbFrom(a, d, 1, 0)

Shift(a) == IF a = <<>> THEN <<>> ELSE <<0>> \o a

\* a * b[1..i] + acc * 1000^i, from the most significant limb of b down
RECURSIVE MulFrom(_, _, _, _)
MulFrom(a, b, i, acc) ==
  IF i = 0 THEN acc
  ELSE LET sum == Add(MulLimb(a, b[i]), Shift(acc))
       IN  IF sum = <<>> THEN MulFrom(a, b, i - 1, <<>>)
           ELSE MulFrom(a, b, i - 1, sum)

Mul(a, b) == IF a = <<>> THEN <<>> ELSE MulFrom(a, b, Len(b), <<>>)

\* the largest d in lo..hi with b * d <= r, given b * lo <= r
RECURSIVE QuotLimb(_, _, _, _)
QuotLimb(r, b, lo, hi) ==
  IF lo = hi THEN lo
  ELSE LET mid == (lo + hi + 1) \div 2
       IN  IF Leq(MulLimb(b, mid), r) THEN QuotLimb(r, b, mid, hi)
           ELSE QuotLimb(r, b, lo, mid - 1)

\* long division of a by b # 0, from the most significant limb a[i] down:
\* q and r are the quotient and remainder of the limbs above a[i]
RECURSIVE DivFrom(_, _, _, _, _)
DivFrom(a, b, i, q, r) ==
  IF i = 0 THEN [q |-> q, r |-> r]
  ELSE LET cur == Trim(<<a[i]>> \o r)
           d   == QuotLimb(cur, b, 0, 999)
           rem == Sub(cur, MulLimb(b, d))
       IN  IF rem = <<>> THEN DivFrom(a, b, i - 1, Trim(<<d>> \o q), <<>>)
           ELSE DivFrom(a, b, i - 1, Trim(<<d>> \o q), rem)

DivMod(a, b) == DivFrom(a, b, Len(a), <<>>, <<>>)

Div(a, b) == DivMod(a, b).q

Mod(a, b) == DivMod(a, b).r

RECURSIVE Pow(_, _)
Pow(a, k) == IF k = 0 THEN N(1) ELSE Mul(a, Pow(a, k - 1))

\* the decimal digits of a, most significant first (none for zero)
Digits(a) ==
  LET d3 == [i \in 1..(3 * Len(a)) |->
               LET l == a[Len(a) - ((i - 1) \div 3)]
               IN  CASE (i - 1) % 3 = 0 -> l \div 100
                     [] (i - 1) % 3 = 1 -> (l \div 10) % 10
                     [] OTHER -> l % 10]
      nz == {i \in 1..Len(d3) : d3[i] # 0}
  IN  IF nz = {} THEN <<>>
      ELSE SubSeq(d3, CHOOSE i \in nz : \A j \in nz : i <= j, Len(d3))

(***************************************************************************)
(* The u64 primitives the crate calls, and the crate's constants.          *)
(***************************************************************************)
\* u64::MAX: eight bytes of all ones
U64_MAX == Sub(Pow(N(256), 8), N(1))

ONE_TERA_GAS == Pow(N(10), 12)

ONE_GIGA_GAS == Pow(N(10), 9)

IsU64(a) == Leq(a, U64_MAX)

\* What a call can produce: a plain value, Some(value), None, or a panic.
Ret(v) == [tag |-> "Ret", val |-> v]

Some(v) == [tag |-> "Some", val |-> v]

None == [tag |-> "None", val |-> <<>>]

Panic == [tag |-> "Panic", val |-> <<>>]

Wrap(a) == Mod(a, Add(U64_MAX, N(1)))

\* `a * b` on u64: with overflow checks on (the debug profile) an overflow
\* panics, with them off (the release profile) the product wraps.
u64_mul(a, b, overflow_checks) ==
  LET p == Mul(a, b)
  IN  IF IsU64(p) THEN Ret(p)
      ELSE IF overflow_checks THEN Panic ELSE Ret(Wrap(p))

\* `a / b` on u64: division by zero panics.
u64_div(a, b) == IF b = Zero THEN Panic ELSE Ret(Div(a, b))

u64_checked_add(a, b) ==
  LET s == Add(a, b) IN IF IsU64(s) THEN Some(s) ELSE None

u64_checked_sub(a, b) == IF Less(a, b) THEN None ELSE Some(Sub(a, b))

u64_checked_mul(a, b) ==
  LET p == Mul(a, b) IN IF IsU64(p) THEN Some(p) ELSE None

u64_checked_div(a, b) == IF b = Zero THEN None ELSE Some(Div(a, b))

u64_saturating_add(a, b) ==
  LET s == Add(a, b) IN IF IsU64(s) THEN s ELSE U64_MAX

u64_saturating_sub(a, b) == IF Less(a, b) THEN Zero ELSE Sub(a, b)

u64_saturating_mul(a, b) ==
  LET p == Mul(a, b) IN IF IsU64(p) THEN p ELSE U64_MAX

\* u64::saturating_div is plain division: it panics on a zero divisor.
u64_saturating_div(a, b) == u64_div(a, b)

(***************************************************************************)
(* UncGas: a transparent wrapper of its `inner: u64`.                      *)
(***************************************************************************)
from_gas(inner) == inner

from_tgas(inner, overflow_checks) == u64_mul(inner, ONE_TERA_GAS, overflow_checks)

\* from_ggas with the tera scale, as a slip between the two constructors
from_ggas_tera(inner, overflow_checks) == u64_mul(inner, ONE_TERA_GAS, overflow_checks)

from_ggas(inner, overflow_checks) == u64_mul(inner, ONE_GIGA_GAS, overflow_checks)

as_gas(g) == g

as_ggas(g) == Div(g, ONE_GIGA_GAS)

\* as_tgas with the giga scale
as_tgas_giga(g) == Div(g, ONE_GIGA_GAS)

as_tgas(g) == Div(g, ONE_TERA_GAS)

OptionGas(o) == IF o.tag = "Some" THEN Some(from_gas(o.val)) ELSE None

checked_add(g, rhs) == OptionGas(u64_checked_add(as_gas(g), as_gas(rhs)))

checked_sub(g, rhs) == OptionGas(u64_checked_sub(as_gas(g), as_gas(rhs)))

checked_mul(g, rhs) == OptionGas(u64_checked_mul(as_gas(g), rhs))

\* checked_div by plain division, which panics on a zero divisor
checked_div_unchecked(g, rhs) ==
  LET d == u64_div(as_gas(g), rhs)
  IN  IF d.tag = "Panic" THEN Panic ELSE Some(from_gas(d.val))

checked_div(g, rhs) == OptionGas(u64_checked_div(as_gas(g), rhs))

\* saturating_add by wrapping addition
saturating_add_wrapping(g, rhs) == Ret(from_gas(Wrap(Add(as_gas(g), as_gas(rhs)))))

saturating_add(g, rhs) == Ret(from_gas(u64_saturating_add(as_gas(g), as_gas(rhs))))

saturating_sub(g, rhs) == Ret(from_gas(u64_saturating_sub(as_gas(g), as_gas(rhs))))

saturating_mul(g, rhs) == Ret(from_gas(u64_saturating_mul(as_gas(g), rhs)))

\* saturating_div without its guard on a zero divisor
saturating_div_unguarded(g, rhs) ==
  LET d == u64_saturating_div(as_gas(g), rhs)
  IN  IF d.tag = "Panic" THEN Panic ELSE Ret(from_gas(d.val))

saturating_div(g, rhs) ==
  IF rhs = Zero THEN Ret(from_gas(Zero))
  ELSE LET d == u64_saturating_div(as_gas(g), rhs)
       IN  IF d.tag = "Panic" THEN Panic ELSE Ret(from_gas(d.val))

(***************************************************************************)
(* Display.  A string is the sequence of its characters.                   *)
(***************************************************************************)
DigitChar == <<"0", "1", "2", "3", "4", "5", "6", "7", "8", "9">>

\* "{}" of a u64: its decimal digits, most significant first.
FmtU64(a) ==
  IF a = Zero THEN <<"0">>
  ELSE LET d == Digits(a) IN [i \in 1..Len(d) |-> DigitChar[d[i] + 1]]

\* "{:03}" of a u64: zero-padded on the left to at least three characters.
FmtU64Pad3(a) ==
  LET s == FmtU64(a)
  IN  IF Len(s) >= 3 THEN s ELSE [i \in 1..(3 - Len(s)) |-> "0"] \o s

Tgas == <<" ", "T", "g", "a", "s">>

\* the giga count truncated instead of rounded up
gigagas_truncated(g) == Div(as_gas(g), ONE_GIGA_GAS)

gigagas_rounded_up(g) ==
  Div(u64_saturating_add(as_gas(g), Sub(ONE_GIGA_GAS, N(1))), ONE_GIGA_GAS)

\* the tenths of a tera-unit with a wrapping ceiling addition
terragas_wrapping(g) ==
  Div(Div(Wrap(Add(as_gas(g), Sub(Mul(N(100), ONE_GIGA_GAS), N(1)))),
          ONE_GIGA_GAS),
      N(100))

terragas_rounded_up(g) ==
  Div(Div(u64_saturating_add(as_gas(g), Sub(Mul(N(100), ONE_GIGA_GAS), N(1))),
          ONE_GIGA_GAS),
      N(100))

\* fmt with `<=` for `<` at the first breakpoint
fmt_below_inclusive(g) ==
  IF g = from_gas(Zero) THEN <<"0">> \o Tgas
  ELSE IF Leq(g, from_ggas(N(1), TRUE).val) THEN <<"<", "0", ".", "0", "0", "1">> \o Tgas
  ELSE IF Leq(g, from_ggas(N(999), TRUE).val)
       THEN <<"0", ".">> \o FmtU64Pad3(gigagas_rounded_up(g)) \o Tgas
  ELSE LET t == terragas_rounded_up(g)
       IN  FmtU64(Div(t, N(10))) \o <<".">> \o FmtU64(Mod(t, N(10))) \o Tgas

fmt(g) ==
  IF g = from_gas(Zero) THEN <<"0">> \o Tgas
  ELSE IF Less(g, from_ggas(N(1), TRUE).val) THEN <<"<", "0", ".", "0", "0", "1">> \o Tgas
  ELSE IF Leq(g, from_ggas(N(999), TRUE).val)
       THEN <<"0", ".">> \o FmtU64Pad3(gigagas_rounded_up(g)) \o Tgas
  ELSE LET t == terragas_rounded_up(g)
       IN  FmtU64(Div(t, N(10))) \o <<".">> \o FmtU64(Mod(t, N(10))) \o Tgas


(***************************************************************************)
(* The caller.  It starts with no quantity of its own (pc = "new", `self`  *)
(* is UncGas::default()), constructs one, and binds it: `self` is then the *)
(* quantity its calls are made on (pc = "ready").  A call leaves in `op`,  *)
(* `recv`, `arg` and `out` its name, the quantity it was made on, its      *)
(* operand and what it produced (pc = "done").  A produced quantity can be *)
(* bound in turn and called on, as in                                      *)
(* a.saturating_add(b).saturating_mul(k), `depth` bindings deep.           *)
(***************************************************************************)
MaxDepth == 2

\* The quantities a run constructs: the Display breakpoints and the table
\* of test_display, the operands of the arithmetic tests, and the top of
\* the u64 range, where the ceiling addition of Display saturates.
Quantities ==
  { Zero, N(1), N(2), N(10),
    N(999999999), ONE_GIGA_GAS, Add(ONE_GIGA_GAS, N(1)),
    Mul(N(200), ONE_GIGA_GAS),
    Mul(N(999), ONE_GIGA_GAS), Add(Mul(N(999), ONE_GIGA_GAS), N(1)),
    Sub(ONE_TERA_GAS, N(1)), ONE_TERA_GAS, Add(ONE_TERA_GAS, N(1)),
    Mul(N(1234567), N(1000000)),
    Sub(Mul(N(100), ONE_TERA_GAS), N(1)),
    Mul(N(1005), Mul(N(100), ONE_GIGA_GAS)),
    Mul(N(1000000500), ONE_GIGA_GAS),
    Div(U64_MAX, N(10)),
    Sub(U64_MAX, Mul(N(100), ONE_GIGA_GAS)),
    Add(Sub(U64_MAX, Mul(N(100), ONE_GIGA_GAS)), N(2)),
    Mul(N(18446744), ONE_TERA_GAS),
    Add(Mul(N(18446744), ONE_TERA_GAS), N(1)),
    Sub(U64_MAX, N(1)), U64_MAX }

\* Right-hand sides of the checked calls: a quantity for add and sub, a u64
\* scalar for mul and div.
Operands == { Zero, N(1), N(2), N(10), N(11), U64_MAX }

\* Right-hand sides of the saturating calls, whose results are called on
\* in turn.
ChainOperands == { Zero, N(1), N(2), U64_MAX }

\* Counts handed to the scaled constructors, up to and past the largest
\* count whose product fits in a u64.
Counts ==
  { Zero, N(1), N(999), N(1000),
    N(18446744), N(18446745),
    Div(U64_MAX, ONE_GIGA_GAS), Add(Div(U64_MAX, ONE_GIGA_GAS), N(1)),
    U64_MAX }

Str(s) == [tag |-> "Str", val |-> s]

\* the calls that return an UncGas
Constructors == {"from_gas", "from_ggas", "from_tgas"}

Saturating == {"saturating_add", "saturating_sub", "saturating_mul", "saturating_div"}

\* UncGas::default(): inner = 0
Init ==
  /\ self = Zero
  /\ recv = Zero
  /\ op = "default"
  /\ arg = Zero
  /\ out = Ret(Zero)
  /\ depth = 0
  /\ pc = "new"

\* An associated function: there is no receiver.
New(name, n, r) ==
  /\ pc = "new"
  /\ op' = name
  /\ arg' = n
  /\ out' = r
  /\ pc' = "done"
  /\ UNCHANGED <<self, recv, depth>>

\* UncGas::from_gas(n)
FromGas == \E n \in Quantities : New("from_gas", n, Ret(from_gas(n)))

\* UncGas::from_ggas(n), in a build with or without overflow checks
FromGgas ==
  \E n \in Counts, overflow_checks \in BOOLEAN :
    New("from_ggas", n, from_ggas(n, overflow_checks))

\* UncGas::from_tgas(n), in a build with or without overflow checks
FromTgas ==
  \E n \in Counts, overflow_checks \in BOOLEAN :
    New("from_tgas", n, from_tgas(n, overflow_checks))

\* let g = <the quantity just produced>; the next call is made on g
Bind ==
  /\ pc = "done"
  /\ op \in Constructors \cup Saturating
  /\ out.tag = "Ret"
  /\ depth < MaxDepth
  /\ self' = out.val
  /\ recv' = Zero
  /\ op' = "let"
  /\ arg' = Zero
  /\ out' = Ret(out.val)
  /\ depth' = depth + 1
  /\ pc' = "ready"

\* A method call on self.
Call(name, a, r) ==
  /\ pc = "ready"
  /\ recv' = self
  /\ op' = name
  /\ arg' = a
  /\ out' = r
  /\ pc' = "done"
  /\ UNCHANGED <<self, depth>>

AsGas == Call("as_gas", Zero, Ret(as_gas(self)))

AsGgas == Call("as_ggas", Zero, Ret(as_ggas(self)))

AsTgas == Call("as_tgas", Zero, Ret(as_tgas(self)))

CheckedAdd == \E rhs \in Operands : Call("checked_add", rhs, checked_add(self, from_gas(rhs)))

CheckedSub == \E rhs \in Operands : Call("checked_sub", rhs, checked_sub(self, from_gas(rhs)))

CheckedMul == \E rhs \in Operands : Call("checked_mul", rhs, checked_mul(self, rhs))

CheckedDiv == \E rhs \in Operands : Call("checked_div", rhs, checked_div(self, rhs))

SaturatingAdd == \E rhs \in ChainOperands : Call("saturating_add", rhs, saturating_add(self, from_gas(rhs)))

SaturatingSub == \E rhs \in ChainOperands : Call("saturating_sub", rhs, saturating_sub(self, from_gas(rhs)))

SaturatingMul == \E rhs \in ChainOperands : Call("saturating_mul", rhs, saturating_mul(self, rhs))

SaturatingDiv == \E rhs \in ChainOperands : Call("saturating_div", rhs, saturating_div(self, rhs))

\* self.to_string()
Display == Call("fmt", Zero, Str(fmt(self)))

Next ==
  \/ FromGas
  \/ FromGgas
  \/ FromTgas
  \/ Bind
  \/ AsGas
  \/ AsGgas
  \/ AsTgas
  \/ CheckedAdd
  \/ CheckedSub
  \/ CheckedMul
  \/ CheckedDiv
  \/ SaturatingAdd
  \/ SaturatingSub
  \/ SaturatingMul
  \/ SaturatingDiv
  \/ Display

Spec == Init /\ [][Next]_vars


(***************************************************************************)
(* What the claims are stated with: exact quotients characterised by       *)
(* multiplication, and a reader of the strings Display writes.             *)
(***************************************************************************)
\* 2^64 - 1, 10^9 and 10^12, written out independently of the model
MaxU64 == Sub(Pow(N(16), 16), N(1))

Giga == Pow(N(10), 9)

Tera == Pow(N(10), 12)

\* q = floor(a / b)
IsFloorDiv(q, a, b) == Leq(Mul(q, b), a) /\ Less(a, Mul(Add(q, N(1)), b))

\* t = ceil(a / b)
IsCeilDiv(t, a, b) ==
  /\ Leq(a, Mul(t, b))
  /\ t = Zero \/ Less(Mul(Sub(t, N(1)), b), a)

Min(a, b) == IF Less(b, a) THEN b ELSE a

Chars == {"0", "1", "2", "3", "4", "5", "6", "7", "8", "9"}

DigitOf(c) ==
  CASE c = "0" -> 0 [] c = "1" -> 1 [] c = "2" -> 2 [] c = "3" -> 3
    [] c = "4" -> 4 [] c = "5" -> 5 [] c = "6" -> 6 [] c = "7" -> 7
    [] c = "8" -> 8 [] c = "9" -> 9

\* the number a string of decimal digits writes
RECURSIVE Num(_)
Num(cs) ==
  IF cs = <<>> THEN Zero
  ELSE Add(Mul(Num(SubSeq(cs, 1, Len(cs) - 1)), N(10)), N(DigitOf(cs[Len(cs)])))

ZeroText == <<"0", " ", "T", "g", "a", "s">>

BelowText == <<"<", "0", ".", "0", "0", "1", " ", "T", "g", "a", "s">>

\* the text before the unit " Tgas"
HasUnit(s) ==
  /\ Len(s) > 5
  /\ SubSeq(s, Len(s) - 4, Len(s)) = <<" ", "T", "g", "a", "s">>

Body(s) == SubSeq(s, 1, Len(s) - 5)

Dots(b) == {i \in 1..Len(b) : b[i] = "."}

\* b is <digits>.<digits>
IsDecimal(b) ==
  /\ Cardinality(Dots(b)) = 1
  /\ \A i \in 1..Len(b) : b[i] \in Chars \cup {"."}
  /\ b[1] # "."
  /\ b[Len(b)] # "."

Whole(b) == SubSeq(b, 1, (CHOOSE i \in Dots(b) : TRUE) - 1)

Frac(b) == SubSeq(b, (CHOOSE i \in Dots(b) : TRUE) + 1, Len(b))

\* a decimal count of tera-units, in base units (at most 12 decimals)
PrintedUnits(b) ==
  Mul(Add(Mul(Num(Whole(b)), Pow(N(10), Len(Frac(b)))), Num(Frac(b))),
      Pow(N(10), 12 - Len(Frac(b))))

Shown == pc = "done" /\ op = "fmt"

Text == out.val

(***************************************************************************)
(* C1: Display never understates: for every quantity v >= 10^9 the number  *)
(* printed, read as a decimal count of tera-units, is at least v base      *)
(* units, also where the ceiling addition saturates.                       *)
(***************************************************************************)
C1_NeverUnderstates ==
  (Shown /\ Leq(ONE_GIGA_GAS, recv)) =>
    /\ HasUnit(Text)
    /\ IsDecimal(Body(Text))
    /\ Leq(recv, PrintedUnits(Body(Text)))

(***************************************************************************)
(* C2: for every quantity v > 999 * 10^9 Display prints "W.F Tgas" with    *)
(* t = ceil(v / 10^11), W = t div 10 and F = t mod 10, one digit.          *)
(***************************************************************************)
C2_OneDecimalForm ==
  (Shown /\ Less(Mul(N(999), Giga), recv)) =>
    /\ HasUnit(Text)
    /\ IsDecimal(Body(Text))
    /\ Len(Frac(Body(Text))) = 1
    /\ Whole(Body(Text))[1] # "0" \/ Len(Whole(Body(Text))) = 1
    /\ IsCeilDiv(Add(Mul(Num(Whole(Body(Text))), N(10)), Num(Frac(Body(Text)))),
                 recv, Mul(N(100), Giga))

(***************************************************************************)
(* C3: for every quantity v with 10^9 <= v <= 999 * 10^9 Display prints    *)
(* "0.DDD Tgas", DDD being ceil(v / 10^9) written in exactly three digits, *)
(* and that count lies in 1..999.                                          *)
(***************************************************************************)
C3_ThreeDecimalForm ==
  (Shown /\ Leq(Giga, recv) /\ Leq(recv, Mul(N(999), Giga))) =>
    /\ HasUnit(Text)
    /\ IsDecimal(Body(Text))
    /\ Whole(Body(Text)) = <<"0">>
    /\ Len(Frac(Body(Text))) = 3
    /\ IsCeilDiv(Num(Frac(Body(Text))), recv, Giga)
    /\ Leq(N(1), Num(Frac(Body(Text))))
    /\ Leq(Num(Frac(Body(Text))), N(999))

C3_Witness ==
  /\ Shown
  /\ recv = Add(Giga, N(1))
  /\ Text = <<"0", ".", "0", "0", "2", " ", "T", "g", "a", "s">>

(***************************************************************************)
(* C4: Display prints "0 Tgas" exactly for v = 0 and "<0.001 Tgas" exactly *)
(* for 0 < v < 10^9; no non-zero quantity is printed as "0 Tgas",          *)
(* "0.000 Tgas" or "0.0 Tgas".                                             *)
(***************************************************************************)
C4_ZeroAndBelowForms ==
  Shown =>
    /\ (Text = ZeroText) <=> (recv = Zero)
    /\ (Text = BelowText) <=> (recv # Zero /\ Less(recv, Giga))
    /\ recv # Zero =>
         /\ Text # ZeroText
         /\ Text # <<"0", ".", "0", "0", "0", " ", "T", "g", "a", "s">>
         /\ Text # <<"0", ".", "0", " ", "T", "g", "a", "s">>

C4_Witness ==
  /\ Shown
  /\ recv = N(999999999)
  /\ Text = BelowText


(***************************************************************************)
(* C5: a checked operation returns None exactly when its mathematical      *)
(* result is not representable, otherwise Some of the exact result, and    *)
(* never panics: checked_add is None iff a + b > 2^64 - 1, checked_sub iff *)
(* a < b, checked_mul iff a * k > 2^64 - 1, checked_div iff k = 0 (else    *)
(* Some(a div k)).                                                         *)
(***************************************************************************)
C5_CheckedExact ==
  /\ (pc = "done" /\ op = "checked_add") =>
       /\ out.tag \in {"Some", "None"}
       /\ (out.tag = "None") <=> Less(MaxU64, Add(recv, arg))
       /\ out.tag = "Some" => out.val = Add(recv, arg)
  /\ (pc = "done" /\ op = "checked_sub") =>
       /\ out.tag \in {"Some", "None"}
       /\ (out.tag = "None") <=> Less(recv, arg)
       /\ out.tag = "Some" => Add(out.val, arg) = recv
  /\ (pc = "done" /\ op = "checked_mul") =>
       /\ out.tag \in {"Some", "None"}
       /\ (out.tag = "None") <=> Less(MaxU64, Mul(recv, arg))
       /\ out.tag = "Some" => out.val = Mul(recv, arg)
  /\ (pc = "done" /\ op = "checked_div") =>
       /\ out.tag \in {"Some", "None"}
       /\ (out.tag = "None") <=> (arg = Zero)
       /\ out.tag = "Some" => IsFloorDiv(out.val, recv, arg)

\* checked_mul_gas: (u64::MAX / 10) * 11 overflows
C5_Witness ==
  /\ pc = "done"
  /\ op = "checked_mul"
  /\ IsFloorDiv(recv, MaxU64, N(10))
  /\ arg = N(11)
  /\ out.tag = "None"

(***************************************************************************)
(* C6: saturating_div(x, 0) is the zero quantity for every x (it neither   *)
(* fails nor saturates to MAX); for k > 0 saturating_div(x, k) = x div k.  *)
(***************************************************************************)
C6_SaturatingDivByZero ==
  (pc = "done" /\ op = "saturating_div") =>
    /\ out.tag = "Ret"
    /\ arg = Zero => out.val = Zero
    /\ arg # Zero => IsFloorDiv(out.val, recv, arg)

C6_Witness ==
  /\ pc = "done"
  /\ op = "saturating_div"
  /\ recv = MaxU64
  /\ arg = Zero
  /\ out = [tag |-> "Ret", val |-> Zero]

(***************************************************************************)
(* C7: the saturating family never fails and clamps to [0, 2^64 - 1]:      *)
(* saturating_add(a, b) = min(a + b, 2^64 - 1), saturating_sub(a, b) =     *)
(* max(a - b, 0), saturating_mul(a, k) = min(a * k, 2^64 - 1); so along    *)
(* any sequence of saturating calls every value stays in [0, 2^64 - 1].    *)
(***************************************************************************)
C7_SaturatingClamps ==
  /\ Leq(self, MaxU64)
  /\ (pc = "done" /\ op \in Saturating) =>
       /\ out.tag = "Ret"
       /\ Leq(out.val, MaxU64)
  /\ (pc = "done" /\ op = "saturating_add") =>
       out.val = Min(Add(recv, arg), MaxU64)
  /\ (pc = "done" /\ op = "saturating_sub") =>
       IF Less(recv, arg) THEN out.val = Zero ELSE Add(out.val, arg) = recv
  /\ (pc = "done" /\ op = "saturating_mul") =>
       out.val = Min(Mul(recv, arg), MaxU64)

\* the second call of a chain clamps at the top of the range
C7_Witness ==
  /\ pc = "done"
  /\ depth = 2
  /\ op = "saturating_add"
  /\ recv = Sub(MaxU64, N(1))
  /\ arg = N(2)
  /\ out.val = MaxU64


(***************************************************************************)
(* C8: the scaled constructors multiply unchecked and never report         *)
(* overflow: for every n, from_ggas(n) returns the quantity                *)
(* (n * 10^9) mod 2^64 and from_tgas(n) the quantity (n * 10^12) mod 2^64; *)
(* no failure is produced when the product exceeds 2^64 - 1.               *)
(***************************************************************************)
Scale == IF op = "from_ggas" THEN Giga ELSE Tera

\* v = p mod 2^64
IsWrapped(v, p) ==
  /\ Leq(v, MaxU64)
  /\ \E q \in {Div(p, Add(MaxU64, N(1)))} : Add(Mul(q, Add(MaxU64, N(1))), v) = p

C8_NeverReportsOverflow ==
  (pc = "done" /\ op \in {"from_ggas", "from_tgas"}) =>
    /\ out.tag = "Ret"
    /\ IsWrapped(out.val, Mul(arg, Scale))

(***************************************************************************)
(* C8 as amended: from_ggas(n) and from_tgas(n) return the exact product   *)
(* whenever it fits in a u64 (so from_tgas(1) = from_ggas(1000) =          *)
(* from_gas(10^12)); when it does not, the outcome is the build's: the     *)
(* product mod 2^64 with overflow checks off, a panic with them on.        *)
(***************************************************************************)
C8_UncheckedScaling ==
  (pc = "done" /\ op \in {"from_ggas", "from_tgas"}) =>
    IF Leq(Mul(arg, Scale), MaxU64)
    THEN out = [tag |-> "Ret", val |-> Mul(arg, Scale)]
    ELSE \/ out.tag = "Panic"
         \/ out.tag = "Ret" /\ IsWrapped(out.val, Mul(arg, Scale))

\* u64::MAX giga-units wrap to 2^64 - 10^9
C8_Witness ==
  /\ pc = "done"
  /\ op = "from_ggas"
  /\ arg = MaxU64
  /\ out = [tag |-> "Ret", val |-> Sub(MaxU64, Sub(Giga, N(1)))]

(***************************************************************************)
(* C9: the accessors divide the stored value exactly, truncating:          *)
(* as_gas(from_gas(n)) = n, as_tgas(from_gas(n)) = n div 10^12 and         *)
(* as_ggas(from_gas(n)) = n div 10^9; the remainder is never rounded up.   *)
(***************************************************************************)
C9_AccessorsTruncate ==
  /\ (pc = "done" /\ op = "from_gas") => out = [tag |-> "Ret", val |-> arg]
  /\ (pc = "done" /\ op = "as_gas") => out = [tag |-> "Ret", val |-> recv]
  /\ (pc = "done" /\ op = "as_ggas") =>
       out.tag = "Ret" /\ IsFloorDiv(out.val, recv, Giga)
  /\ (pc = "done" /\ op = "as_tgas") =>
       out.tag = "Ret" /\ IsFloorDiv(out.val, recv, Tera)

\* 999_999_999_999 holds no whole tera-unit (Display shows it as 1.0)
C9_Witness ==
  /\ pc = "done"
  /\ op = "as_tgas"
  /\ recv = Sub(Tera, N(1))
  /\ out = [tag |-> "Ret", val |-> Zero]

(***************************************************************************)
(* C10: Display preserves order across the four breakpoints and up to      *)
(* u64::MAX: for quantities a <= b the magnitude printed for a is at most  *)
(* the one printed for b, taking "0" < "<0.001" < any "0.DDD" < any "W.F"  *)
(* and comparing numerically within a form.                                *)
(***************************************************************************)
\* the form of a text (0: "0", 1: "<0.001", 2: "0.DDD", 3: "W.F") and the
\* number it writes within that form
Form(s) ==
  CASE s = ZeroText -> 0
    [] s = BelowText -> 1
    [] HasUnit(s) /\ IsDecimal(Body(s)) /\ Len(Frac(Body(s))) = 3 -> 2
    [] HasUnit(s) /\ IsDecimal(Body(s)) /\ Len(Frac(Body(s))) = 1 -> 3
    [] OTHER -> 4

Magnitude(s) ==
  IF Form(s) \in {2, 3}
  THEN Add(Mul(Num(Whole(Body(s))), Pow(N(10), Len(Frac(Body(s))))), Num(Frac(Body(s))))
  ELSE Zero

PrintedLeq(s, t) ==
  \/ Form(s) < Form(t)
  \/ Form(s) = Form(t) /\ Leq(Magnitude(s), Magnitude(t))

\* what Display writes for each of the quantities
Table == {<<b, fmt(b)>> : b \in Quantities}

C10_DisplayMonotone ==
  Shown =>
    /\ Form(Text) \in 0..3
    /\ \A e \in Table :
         /\ Leq(recv, e[1]) => PrintedLeq(Text, e[2])
         /\ Leq(e[1], recv) => PrintedLeq(e[2], Text)

\* across the breakpoint at 999 giga-units: "0.999 Tgas" then "1.0 Tgas"
C10_Witness ==
  /\ Shown
  /\ recv = Add(Mul(N(999), Giga), N(1))
  /\ Text = <<"1", ".", "0", " ", "T", "g", "a", "s">>
  /\ fmt(Mul(N(999), Giga)) = <<"0", ".", "9", "9", "9", " ", "T", "g", "a", "s">>

====
